---- MODULE Spec2Model ----
(***************************************************************************)
(* backupControl: the email -> client/backup/event reconciliation pipeline *)
(* (backend/app/api/emails_v2.py), the hourly Status Engine                *)
(* (backend/app/services/scheduler.py) and the API handlers that touch the *)
(* same rows (clients.py, backups.py).                                     *)
(*                                                                         *)
(* Text values that the code compares, upper-cases, concatenates or        *)
(* pattern-matches (NAS identifiers, short names, task names, backup       *)
(* names) are sequences of one-character strings, so that upper(), the     *)
(* prefix regex and ILIKE are computed, not assumed.  None and "" are both *)
(* the empty sequence: every place of the code that reads these values     *)
(* tests them for truthiness only.  Timestamps are whole hours; NoTime is  *)
(* None.                                                                   *)
(***************************************************************************)
EXTENDS Integers, Sequences, FiniteSets, TLC

VARIABLES clients, backups, events, emails, alerts, mailbox, now, run, snap, last,
          committed

vars ==
    <<clients, backups, events, emails, alerts, mailbox, now, run, snap, last,
      committed>>

store == <<clients, backups, events, emails, alerts>>

(***************************************************************************)
(* Bounds of the model                                                     *)
(***************************************************************************)
MaxMsgs == 2
MaxRuns == 2
MaxNow == 73
MaxRecordNow == 1
MaxClients == 2

(***************************************************************************)
(* Text helpers                                                            *)
(***************************************************************************)
Lowers == <<"a","b","c","d","e","f","g","h","i","j","k","l","m",
            "n","o","p","q","r","s","t","u","v","w","x","y","z">>

Uppers == <<"A","B","C","D","E","F","G","H","I","J","K","L","M",
            "N","O","P","Q","R","S","T","U","V","W","X","Y","Z">>

IndexIn(c, alphabet) ==
    IF \E i \in DOMAIN alphabet : alphabet[i] = c
    THEN CHOOSE i \in DOMAIN alphabet : alphabet[i] = c
    ELSE 0

upper(s) == [i \in 1..Len(s) |->
               IF IndexIn(s[i], Lowers) > 0 THEN Uppers[IndexIn(s[i], Lowers)] ELSE s[i]]

lower(s) == [i \in 1..Len(s) |->
               IF IndexIn(s[i], Uppers) > 0 THEN Lowers[IndexIn(s[i], Uppers)] ELSE s[i]]

IsUpperLetter(c) == IndexIn(c, Uppers) > 0

Contains(s, sub) ==
    \E i \in 0..(Len(s) - Len(sub)) : SubSeq(s, i + 1, i + Len(sub)) = sub

\* SQL ILIKE '%pat%': case-insensitive substring
ilike(s, pat) == Contains(lower(s), lower(pat))

Min(a, b) == IF a <= b THEN a ELSE b

RECURSIVE JoinQuoted(_)
JoinQuoted(list) ==
    IF list = <<>> THEN <<>>
    ELSE <<"\"">> \o Head(list) \o <<"\"">>
         \o (IF Len(list) > 1 THEN <<",", " ">> ELSE <<>>)
         \o JoinQuoted(Tail(list))

\* cast(Client.nas_identifiers, String): the JSON text of a list of strings
JsonDump(list) == <<"[">> \o JoinQuoted(list) \o <<"]">>

RECURSIVE JoinComma(_)
JoinComma(list) ==
    IF list = <<>> THEN <<>>
    ELSE Head(list) \o (IF Len(list) > 1 THEN <<",", " ">> ELSE <<>>)
         \o JoinComma(Tail(list))

(***************************************************************************)
(* Values                                                                  *)
(***************************************************************************)
NoTime == -1
BadTime == -2
NoRow == 0

NABO03 == <<"N","A","B","O","0","3">>
NABO04 == <<"N","A","B","O","0","4">>
nabo03 == <<"n","a","b","o","0","3">>
SRV1 == <<"S","R","V","1">>
NABO == <<"N","A","B","O">>
ABO == <<"A","B","O">>
Daily == <<"D","a","i","l","y">>
DailyFull == <<"D","a","i","l","y"," ","F","u","l","l">>
PC1 == <<"P","C","1">>
UNKNOWN == <<"U","N","K","N","O","W","N">>
Sep == <<" ","-"," ">>
ActiveBackupLabel == <<"A","c","t","i","v","e"," ","B","a","c","k","u","p">>

TypeText(t) ==
    CASE t = "hyper_backup" -> <<"h","y","p","e","r","_","b","a","c","k","u","p">>
      [] t = "active_backup" -> <<"a","c","t","i","v","e","_","b","a","c","k","u","p">>
      [] OTHER -> <<"o","t","h","e","r">>

\* the result analyze_email_with_ai returns when the oracle call fails
NotBackup == [is_backup_notification |-> FALSE, backup_type |-> "none",
              status |-> "none", source_nas |-> <<>>, task_name |-> <<>>,
              devices |-> <<>>]

Signal(src, type, task, devs, st) ==
    [is_backup_notification |-> TRUE, backup_type |-> type, status |-> st,
     source_nas |-> src, task_name |-> task, devices |-> devs]

(***************************************************************************)
(* Result.scalar_one_or_none(): None for no row, the row for one row,      *)
(* MultipleResultsFound for more                                           *)
(***************************************************************************)
ScalarOneOrNone(ids) ==
    IF ids = {} THEN [raised |-> FALSE, row |-> NoRow]
    ELSE IF Cardinality(ids) = 1
         THEN [raised |-> FALSE, row |-> CHOOSE r \in ids : TRUE]
         ELSE [raised |-> TRUE, row |-> NoRow]

(***************************************************************************)
(* Entity Resolver: emails_v2.py get_or_create_client                      *)
(***************************************************************************)
PrefixMinLetters == 2
PrefixMaxLetters == 4

\* number of consecutive upper-case letters of u after its first character
LetterRun(u) ==
    CHOOSE k \in 0..(Len(u) - 1) :
        /\ \A j \in 2..(k + 1) : IsUpperLetter(u[j])
        /\ (k + 2 > Len(u) \/ ~IsUpperLetter(u[k + 2]))

\* re.match(r'^(N[A-Z]{2,4})\d*', nas_identifier.upper()), group 1 or the
\* whole upper-cased identifier
ClientPrefix(nas_identifier) ==
    LET u == upper(nas_identifier)
    IN  IF Len(u) >= 1 /\ u[1] = "N" /\ LetterRun(u) >= PrefixMinLetters
        THEN SubSeq(u, 1, 1 + Min(LetterRun(u), PrefixMaxLetters))
        ELSE u

ClientsByShortName(cl, short) ==
    {c \in DOMAIN cl : cl[c].short_name = short}

ClientsByNasIdentifier(cl, nas_identifier) ==
    {c \in DOMAIN cl :
        ilike(JsonDump(cl[c].nas_identifiers),
              <<"\"">> \o upper(nas_identifier) \o <<"\"">>)}

InList(x, list) == \E i \in DOMAIN list : list[i] = x

NewClient(prefix, nas_identifier) ==
    [short_name |-> prefix, nas_identifiers |-> <<upper(nas_identifier)>>]

GetOrCreateClient(cl, nas_identifier) ==
    LET prefix == ClientPrefix(nas_identifier)
        r1 == ScalarOneOrNone(ClientsByShortName(cl, prefix))
        r2 == IF r1.raised \/ r1.row # NoRow THEN r1
              ELSE ScalarOneOrNone(ClientsByNasIdentifier(cl, nas_identifier))
    IN  IF r2.raised
        THEN [raised |-> TRUE, clients |-> cl, client |-> NoRow, created |-> FALSE]
        ELSE IF r2.row # NoRow
        THEN [raised |-> FALSE,
              clients |-> IF InList(upper(nas_identifier), cl[r2.row].nas_identifiers)
                          THEN cl
                          ELSE [cl EXCEPT ![r2.row].nas_identifiers =
                                              @ \o <<upper(nas_identifier)>>],
              client |-> r2.row, created |-> FALSE]
        ELSE [raised |-> FALSE,
              clients |-> Append(cl, NewClient(prefix, nas_identifier)),
              client |-> Len(cl) + 1, created |-> TRUE]

(***************************************************************************)
(* Entity Resolver: emails_v2.py get_or_create_backup                      *)
(***************************************************************************)
MaxDevicesInName == 3

SourceNasOf(analysis) ==
    upper(IF analysis.source_nas # <<>> THEN analysis.source_nas ELSE UNKNOWN)

BackupTypeOf(analysis) ==
    IF analysis.backup_type = "none" THEN "other" ELSE analysis.backup_type

BackupName(analysis) ==
    IF analysis.task_name # <<>>
    THEN SourceNasOf(analysis) \o Sep \o analysis.task_name
    ELSE IF BackupTypeOf(analysis) = "active_backup" /\ analysis.devices # <<>>
    THEN SourceNasOf(analysis) \o Sep \o ActiveBackupLabel \o Sep
         \o JoinComma(SubSeq(analysis.devices, 1,
                             Min(Len(analysis.devices), MaxDevicesInName)))
    ELSE SourceNasOf(analysis) \o Sep \o TypeText(BackupTypeOf(analysis))

MatchingBackups(bk, client, analysis) ==
    {b \in DOMAIN bk :
        /\ bk[b].client_id = client
        /\ bk[b].source_nas = SourceNasOf(analysis)
        /\ bk[b].backup_type = BackupTypeOf(analysis)
        /\ (analysis.task_name # <<>> =>
               \/ bk[b].name = BackupName(analysis)
               \/ ilike(bk[b].name, analysis.task_name))}

NewBackup(client, analysis) ==
    [client_id |-> client, name |-> BackupName(analysis),
     backup_type |-> BackupTypeOf(analysis), source_nas |-> SourceNasOf(analysis),
     current_status |-> "unknown",
     last_success_at |-> NoTime, last_failure_at |-> NoTime, last_event_at |-> NoTime,
     total_success_count |-> 0, total_failure_count |-> 0,
     is_active |-> TRUE, is_maintenance |-> FALSE, maintenance_until |-> NoTime]

GetOrCreateBackup(bk, client, analysis) ==
    LET r == ScalarOneOrNone(MatchingBackups(bk, client, analysis))
    IN  IF r.raised
        THEN [raised |-> TRUE, backups |-> bk, backup |-> NoRow, created |-> FALSE]
        ELSE IF r.row # NoRow
        THEN [raised |-> FALSE, backups |-> bk, backup |-> r.row, created |-> FALSE]
        ELSE [raised |-> FALSE, backups |-> Append(bk, NewBackup(client, analysis)),
              backup |-> Len(bk) + 1, created |-> TRUE]

(***************************************************************************)
(* Event Recorder: emails_v2.py create_backup_event                        *)
(***************************************************************************)
EventType(analysis) ==
    IF analysis.status \in {"success", "failure", "warning"}
    THEN analysis.status ELSE "unknown"

EventsOf(ev, backup, email_id) ==
    {e \in DOMAIN ev : ev[e].backup_id = backup /\ ev[e].email_id = email_id}

\* email.received_at or datetime.utcnow()
EventDate(received_at, t) == IF received_at # NoTime THEN received_at ELSE t

\* the recorder leaving the counters alone
RecordOnBackup_NoCount(b, event_type, received_at) ==
    LET b1 == IF event_type = "success"
              THEN [b EXCEPT !.last_success_at = received_at,
                             !.current_status = "ok"]
              ELSE IF event_type = "failure"
              THEN [b EXCEPT !.last_failure_at = received_at,
                             !.current_status = "failed"]
              ELSE b
    IN  [b1 EXCEPT !.last_event_at = received_at]

RecordOnBackup(b, event_type, received_at) ==
    LET b1 == IF event_type = "success"
              THEN [b EXCEPT !.last_success_at = received_at,
                             !.total_success_count = @ + 1,
                             !.current_status = "ok"]
              ELSE IF event_type = "failure"
              THEN [b EXCEPT !.last_failure_at = received_at,
                             !.total_failure_count = @ + 1,
                             !.current_status = "failed"]
              ELSE b
    IN  [b1 EXCEPT !.last_event_at = received_at]

\* the recorder without its look-up of an existing event
CreateBackupEvent_NoLookup(bk, ev, backup, email_id, received_at, analysis, t) ==
    [raised |-> FALSE,
     backups |-> [bk EXCEPT ![backup] =
                     RecordOnBackup(@, EventType(analysis), received_at)],
     events |-> Append(ev, [backup_id |-> backup, email_id |-> email_id,
                            event_type |-> EventType(analysis),
                            event_date |-> EventDate(received_at, t)]),
     event |-> Len(ev) + 1, created |-> TRUE]

CreateBackupEvent(bk, ev, backup, email_id, received_at, analysis, t) ==
    LET r == ScalarOneOrNone(EventsOf(ev, backup, email_id))
    IN  IF r.raised
        THEN [raised |-> TRUE, backups |-> bk, events |-> ev,
              event |-> NoRow, created |-> FALSE]
        ELSE IF r.row # NoRow
        THEN [raised |-> FALSE, backups |-> bk, events |-> ev,
              event |-> r.row, created |-> FALSE]
        ELSE [raised |-> FALSE,
              backups |-> [bk EXCEPT ![backup] =
                              RecordOnBackup(@, EventType(analysis), received_at)],
              events |-> Append(ev, [backup_id |-> backup, email_id |-> email_id,
                                     event_type |-> EventType(analysis),
                                     event_date |-> EventDate(received_at, t)]),
              event |-> Len(ev) + 1, created |-> TRUE]

(***************************************************************************)
(* Status Engine: services/scheduler.py _update_backup_statuses            *)
(***************************************************************************)
OkHours == 24
WarningHours == 48
AlertHours == 72

\* the thresholds read as strict bounds
ClockStatus_Strict(hours_since_success) ==
    IF hours_since_success < OkHours THEN "ok"
    ELSE IF hours_since_success < WarningHours THEN "warning"
    ELSE IF hours_since_success < AlertHours THEN "alert"
    ELSE "critical"

ClockStatus(hours_since_success) ==
    IF hours_since_success <= OkHours THEN "ok"
    ELSE IF hours_since_success <= WarningHours THEN "warning"
    ELSE IF hours_since_success <= AlertHours THEN "alert"
    ELSE "critical"

\* the loop without its maintenance skip
Recomputed_NoSkip(b) == b.is_active

\* the backups the loop recomputes: active, not skipped for maintenance
Recomputed(b) == b.is_active /\ ~b.is_maintenance

\* the loop leaving the status of a backup without success as it is
UpdatedStatus_KeepNull(b, t) ==
    IF ~Recomputed(b) \/ b.last_success_at = NoTime THEN b.current_status
    ELSE ClockStatus(t - b.last_success_at)

UpdatedStatus(b, t) ==
    IF ~Recomputed(b) THEN b.current_status
    ELSE IF b.last_success_at = NoTime THEN "unknown"
    ELSE ClockStatus(t - b.last_success_at)

EmitsAlert_Repeat(b, t) ==
    /\ Recomputed(b)
    /\ b.last_success_at # NoTime
    /\ UpdatedStatus(b, t) \in {"alert", "critical"}

EmitsAlert(b, t) ==
    /\ Recomputed(b)
    /\ b.last_success_at # NoTime
    /\ b.current_status # UpdatedStatus(b, t)
    /\ UpdatedStatus(b, t) \in {"alert", "critical"}

MissingAlert(bk, b, t) ==
    [alert_type |-> "backup_missing", severity |-> UpdatedStatus(bk[b], t),
     client_id |-> bk[b].client_id, backup_id |-> b, is_resolved |-> FALSE]

RECURSIVE NewAlerts(_, _, _)
NewAlerts(bk, from, t) ==
    IF from > Len(bk) THEN <<>>
    ELSE (IF EmitsAlert(bk[from], t) THEN <<MissingAlert(bk, from, t)>> ELSE <<>>)
         \o NewAlerts(bk, from + 1, t)

(***************************************************************************)
(* State                                                                   *)
(***************************************************************************)
NoLast == [op |-> "none"]

NoSnap == [valid |-> FALSE, batch |-> <<>>, nclients |-> 0, nbackups |-> 0,
           events |-> <<>>]

IdleRun(n) ==
    [pc |-> "idle", batch |-> <<>>, i |-> 0, no |-> n, replay |-> FALSE,
     dirty |-> FALSE, broken |-> FALSE, faults |-> {}, errors |-> 0,
     results |-> <<>>, events_created |-> 0]

\* the rows of the run's session, as a commit writes them
Image(cl, bk, ev, em) ==
    [clients |-> cl, backups |-> bk, events |-> ev, emails |-> em]

Init ==
    /\ clients = <<>>
    /\ backups = <<>>
    /\ events = <<>>
    /\ emails = <<>>
    /\ alerts = <<>>
    /\ mailbox = <<>>
    /\ now = 0
    /\ run = IdleRun(0)
    /\ snap = NoSnap
    /\ last = NoLast
    /\ committed = Image(<<>>, <<>>, <<>>, <<>>)

\* log_retention_days of config.py, in hours
RetentionHours == 2160

\* the instants at which the model looks at the clock: both sides of each
\* status threshold for a success received at hour 0 or hour 1, and both
\* sides of the retention cutoff for an email fetched at hour 0
ClockTicks ==
    {t \in 0..MaxNow : t % OkHours \in {0, 1}}
       \cup {RetentionHours, RetentionHours + 1}

Tick(t) ==
    /\ t \in ClockTicks
    /\ t > now
    /\ now' = t
    /\ last' = [op |-> "tick"]
    /\ UNCHANGED <<store, mailbox, run, snap, committed>>

\* a message reaches the mailbox: Graph gives it receivedDateTime = now, a
\* text that does not parse, or none
Arrive(analysis, received_at) ==
    /\ Len(mailbox) < MaxMsgs
    /\ mailbox' = Append(mailbox, [received_at |-> received_at,
                                   analysis |-> analysis, storable |-> TRUE,
                                   reportable |-> TRUE])
    /\ last' = [op |-> "arrive"]
    /\ UNCHANGED <<store, now, run, snap, committed>>

\* a message reaches a mailbox that holds more than one commit group, few
\* of its messages being backup notifications
MaxBatch == 11
MaxNotifications == 1

ArriveInBatch(analysis) ==
    /\ run.pc = "idle"
    /\ Len(mailbox) < MaxBatch
    /\ analysis.is_backup_notification
          => Cardinality({m \in DOMAIN mailbox :
                            mailbox[m].analysis.is_backup_notification})
                < MaxNotifications
    /\ mailbox' = Append(mailbox, [received_at |-> now,
                                   analysis |-> analysis, storable |-> TRUE,
                                   reportable |-> TRUE])
    /\ last' = [op |-> "arrive"]
    /\ UNCHANGED <<store, now, run, snap, committed>>

\* a message one of whose fields is longer than its column of the emails
\* table (subject String(500), sender String(255)): its INSERT fails
ArriveOversize(analysis) ==
    /\ Len(mailbox) < MaxMsgs
    /\ mailbox' = Append(mailbox, [received_at |-> now,
                                   analysis |-> analysis, storable |-> FALSE,
                                   reportable |-> TRUE])
    /\ last' = [op |-> "arrive"]
    /\ UNCHANGED <<store, now, run, snap, committed>>

\* a message for which the oracle's JSON carries a field of a type that
\* AnalysisResult refuses (confidence: null, where the schema of line 45 has
\* int): the Email row takes it, the entry of the report does not
ArriveMistyped(analysis) ==
    /\ Len(mailbox) < MaxMsgs
    /\ mailbox' = Append(mailbox, [received_at |-> now,
                                   analysis |-> analysis, storable |-> TRUE,
                                   reportable |-> FALSE])
    /\ last' = [op |-> "arrive"]
    /\ UNCHANGED <<store, now, run, snap, committed>>

\* the oracle answers differently the next time a run shows it message m
Reclassify(m, analysis) ==
    /\ run.pc = "idle"
    /\ m \in DOMAIN mailbox
    /\ mailbox[m].analysis # analysis
    /\ mailbox' = [mailbox EXCEPT ![m].analysis = analysis]
    /\ snap' = NoSnap
    /\ run' = [run EXCEPT !.replay = FALSE]
    /\ last' = [op |-> "reclassify"]
    /\ UNCHANGED <<store, now, committed>>

(***************************************************************************)
(* Pipeline Orchestrator: emails_v2.py fetch_and_analyze_emails            *)
(***************************************************************************)
\* fetch_office365_emails: the `limit` most recent messages, most recent first
Fetched(limit) ==
    [k \in 1..Min(limit, Len(mailbox)) |-> Len(mailbox) + 1 - k]

\* lines 613-623 of the report: r.status or "unknown", r.backup_type or
\* "unknown", counted over the results that are backup notifications
StatusKey(analysis) == IF analysis.status = "none" THEN "unknown" ELSE analysis.status

TypeKey(analysis) ==
    IF analysis.backup_type = "none" THEN "unknown" ELSE analysis.backup_type

Notifications(results) ==
    {i \in DOMAIN results : results[i].is_backup_notification}

ByStatus(results) ==
    [k \in {StatusKey(results[i]) : i \in Notifications(results)} |->
        Cardinality({i \in Notifications(results) : StatusKey(results[i]) = k})]

ByType(results) ==
    [k \in {TypeKey(results[i]) : i \in Notifications(results)} |->
        Cardinality({i \in Notifications(results) : TypeKey(results[i]) = k})]

\* FetchAndAnalyzeResponse, and the status of _analysis_progress when it is
\* returned.  The responses of the early returns and of the outer except
\* leave the counters at their defaults; total_fetched is given by the
\* response for the missing API key and by the one after the loop.
Report(success, batch, faults, errors, creds_ok, key_ok, results, events_created, status) ==
    [op |-> "report", success |-> success,
     total_fetched |-> IF success \/ ~key_ok THEN Len(batch) ELSE 0,
     total_analyzed |-> Len(results),
     backup_notifications_found |-> Cardinality(Notifications(results)),
     events_created |-> events_created,
     by_status |-> ByStatus(results), by_type |-> ByType(results),
     batch |-> batch, faults |-> faults, errors |-> errors,
     creds_ok |-> creds_ok, key_ok |-> key_ok, progress |-> status]

\* the settings read, the fetch and the early returns of lines 461-520
StartRunWithLimit(creds_ok, key_ok, limit) ==
    /\ run.pc = "idle"
    /\ run.no < MaxRuns
    /\ IF ~creds_ok
       THEN /\ run' = IdleRun(run.no + 1)
            /\ last' = Report(FALSE, <<>>, {}, 1, creds_ok, key_ok, <<>>, 0,
                              "fetching")
       ELSE IF Fetched(limit) = <<>>
       THEN /\ run' = IdleRun(run.no + 1)
            /\ last' = Report(TRUE, <<>>, {}, 0, creds_ok, key_ok, <<>>, 0,
                              "fetching")
       ELSE IF ~key_ok
       THEN /\ run' = IdleRun(run.no + 1)
            /\ last' = Report(FALSE, Fetched(limit), {}, 1, creds_ok, key_ok,
                              <<>>, 0, "fetching")
       ELSE /\ run' = [IdleRun(run.no + 1) EXCEPT
                          !.pc = "analyzing", !.batch = Fetched(limit),
                          !.replay = snap.valid /\ snap.batch = Fetched(limit)]
            /\ last' = [op |-> "fetch", total_fetched |-> Len(Fetched(limit))]
    /\ UNCHANGED <<store, mailbox, now, snap, committed>>

\* a run with any limit up to the size of the mailbox
StartRun(creds_ok, key_ok) ==
    \E limit \in 1..MaxMsgs : StartRunWithLimit(creds_ok, key_ok, limit)

\* datetime.fromisoformat(...), utcnow() when the text does not parse, None kept
ParseReceivedAt(raw, t) == IF raw = BadTime THEN t ELSE raw

EmailsByMessageId(em, message_id) ==
    {e \in DOMAIN em : em[e].message_id = message_id}

\* the Email row after the insert or the in-place update of lines 545-572;
\* fetched_at is the server default now() of the insert
UpsertEmail(em, row, message_id, received_at, analysis, t) ==
    IF row = NoRow
    THEN Append(em, [message_id |-> message_id, received_at |-> received_at,
                     is_backup_notification |-> analysis.is_backup_notification,
                     detected_status |-> analysis.status,
                     detected_client_id |-> NoRow, fetched_at |-> t])
    ELSE [em EXCEPT ![row].is_backup_notification = analysis.is_backup_notification,
                    ![row].detected_status = analysis.status]

\* the gate without its test of the source
Attributable_AnySource(analysis) == analysis.is_backup_notification

\* the gate of line 574
Attributable(analysis) ==
    analysis.is_backup_notification /\ analysis.source_nas # <<>>

\* the commit of line 602, once every CommitEvery emails
CommitEvery == 10

\* the stages at which an iteration is left through the except of line 606;
\* session_raised is the PendingRollbackError every statement raises after a
\* failed flush
RaisedStages ==
    {"email_raised", "flush_raised", "client_raised", "client_clash",
     "backup_raised", "event_raised", "result_raised", "session_raised"}

\* an entity the iteration did not reach
Unreached == [client |-> NoRow, backup |-> NoRow, event |-> NoRow, created |-> FALSE]

\* what an iteration on message m tells of itself
Step(m, email_id, stage, c, b, e) ==
    [op |-> "process", msg |-> m, email |-> email_id,
     analysis |-> mailbox[m].analysis,
     client |-> c.client, client_new |-> c.created,
     backup |-> b.backup, backup_new |-> b.created,
     event |-> e.event, event_new |-> e.created,
     clash |-> FALSE, stage |-> stage]

\* the session's rows after an iteration, whether the session is closed, and
\* the iteration's account
Outcome(cl, bk, ev, em, broken, step) ==
    [clients |-> cl, backups |-> bk, events |-> ev, emails |-> em,
     broken |-> broken, last |-> step]

\* lines 589-600: the AnalysisResult of the iteration is built after the
\* entities; its validation raises when a field has a type it refuses
ResultStage(m, stage) == IF mailbox[m].reportable THEN stage ELSE "result_raised"

\* lines 587-600: create_backup_event, the email's detected_client_id
EventStage(m, email_id, em1, c, b, e) ==
    IF e.raised
    THEN Outcome(c.clients, b.backups, events, em1, FALSE,
                 Step(m, email_id, "event_raised", c, b, Unreached))
    ELSE Outcome(c.clients, e.backups, e.events,
                 [em1 EXCEPT ![email_id].detected_client_id = c.client], FALSE,
                 Step(m, email_id, ResultStage(m, "recorded"), c, b, e))

\* lines 580-586: get_or_create_backup
BackupStage(m, email_id, em1, c, b) ==
    IF b.raised
    THEN Outcome(c.clients, backups, events, em1, FALSE,
                 Step(m, email_id, "backup_raised", c, Unreached, Unreached))
    ELSE EventStage(m, email_id, em1, c, b,
                    CreateBackupEvent(b.backups, events, b.backup, email_id,
                                      em1[email_id].received_at,
                                      mailbox[m].analysis, now))

\* lines 576-579: get_or_create_client
ClientStage(m, email_id, em1, c) ==
    IF c.raised
    THEN Outcome(clients, backups, events, em1, FALSE,
                 Step(m, email_id, "client_raised", Unreached, Unreached, Unreached))
    ELSE BackupStage(m, email_id, em1, c,
                     GetOrCreateBackup(backups, c.client, mailbox[m].analysis))

\* line 574: the gate on the analysis
GateStage(m, email_id, em1) ==
    IF ~Attributable(mailbox[m].analysis)
    THEN Outcome(clients, backups, events, em1, FALSE,
                 Step(m, email_id, ResultStage(m, "not_attributed"),
                      Unreached, Unreached, Unreached))
    ELSE ClientStage(m, email_id, em1,
                     GetOrCreateClient(clients, mailbox[m].analysis.source_nas))

\* lines 526-572: the look-up of the Email row, its insert and flush or its
\* update
EmailStage(m, found) ==
    IF run.broken
    THEN Outcome(clients, backups, events, emails, TRUE,
                 Step(m, NoRow, "session_raised", Unreached, Unreached, Unreached))
    ELSE IF found.raised
    THEN Outcome(clients, backups, events, emails, FALSE,
                 Step(m, NoRow, "email_raised", Unreached, Unreached, Unreached))
    ELSE IF found.row = NoRow /\ ~mailbox[m].storable
    THEN Outcome(committed.clients, committed.backups, committed.events,
                 committed.emails, TRUE,
                 Step(m, NoRow, "flush_raised", Unreached, Unreached, Unreached))
    ELSE GateStage(m, IF found.row = NoRow THEN Len(emails) + 1 ELSE found.row,
                   UpsertEmail(emails, found.row, m,
                               ParseReceivedAt(mailbox[m].received_at, now),
                               mailbox[m].analysis, now))

\* one iteration of the loop for message m.  An exception leaves the writes
\* made before it in the session: the except does not roll back.  A failed
\* flush is the exception that does: the session's transaction is rolled
\* back as a whole and the session refuses every later statement.
ProcessOne(m) ==
    EmailStage(m, ScalarOneOrNone(EmailsByMessageId(emails, m)))

\* the bookkeeping of the loop after an iteration with result r on message m
Advance(r, m) ==
    [run EXCEPT !.i = @ + 1,
                !.broken = r.broken,
                !.faults = IF r.last.stage \in RaisedStages \ {"session_raised"}
                           THEN @ \cup {m} ELSE @,
                !.errors = IF r.last.stage \in RaisedStages THEN @ + 1 ELSE @,
                !.results = IF r.last.stage \in RaisedStages THEN @
                            ELSE Append(@, r.last.analysis),
                !.events_created = IF r.last.event_new THEN @ + 1 ELSE @]

ProcessEmail ==
    /\ run.pc = "analyzing"
    /\ run.i < Len(run.batch)
    /\ \E r \in {ProcessOne(run.batch[run.i + 1])} :
           /\ clients' = r.clients
           /\ backups' = r.backups
           /\ events' = r.events
           /\ emails' = r.emails
           /\ last' = r.last
           /\ run' = Advance(r, run.batch[run.i + 1])
           /\ committed' =
                 IF r.last.stage \notin RaisedStages /\ (run.i + 1) % CommitEvery = 0
                 THEN Image(r.clients, r.backups, r.events, r.emails)
                 ELSE committed
    /\ UNCHANGED <<alerts, mailbox, now, snap>>

\* the iteration in which a concurrent run commits the Client of the same
\* short_name between this run's look-ups (lines 283-295) and its flush
\* (line 312).  The INSERT violates the unique index of clients.short_name:
\* get_or_create_client does not catch the IntegrityError, the except of
\* line 606 does, and the session is left as a failed flush leaves it.  Of
\* the rows the concurrent run committed only its Client is kept here.
ProcessEmailRaced ==
    /\ run.pc = "analyzing"
    /\ run.i < Len(run.batch)
    /\ ~run.broken
    /\ Len(clients) < MaxClients
    /\ \E m \in {run.batch[run.i + 1]} :
         \E found \in {ScalarOneOrNone(EmailsByMessageId(emails, m))} :
           /\ ~found.raised
           /\ found.row # NoRow \/ mailbox[m].storable
           /\ Attributable(mailbox[m].analysis)
           /\ \E c \in {GetOrCreateClient(clients, mailbox[m].analysis.source_nas)} :
                \E peer \in {NewClient(ClientPrefix(mailbox[m].analysis.source_nas),
                                       mailbox[m].analysis.source_nas)} :
                  /\ ~c.raised
                  /\ c.created
                  /\ clients' = Append(committed.clients, peer)
                  /\ backups' = committed.backups
                  /\ events' = committed.events
                  /\ emails' = committed.emails
                  /\ committed' = [committed EXCEPT !.clients = Append(@, peer)]
                  /\ last' = [Step(m, NoRow, "client_clash",
                                   Unreached, Unreached, Unreached)
                                 EXCEPT !.clash = TRUE]
                  /\ run' = [run EXCEPT !.i = @ + 1, !.broken = TRUE,
                                        !.faults = @ \cup {m}, !.errors = @ + 1]
    /\ UNCHANGED <<alerts, mailbox, now, snap>>

\* the final commit and the report; on a session that a failed flush has
\* closed the commit raises and the outer except answers success = false
FinishRun ==
    /\ run.pc = "analyzing"
    /\ run.i = Len(run.batch)
    /\ committed' = IF run.broken THEN committed
                    ELSE Image(clients, backups, events, emails)
    /\ snap' = IF run.dirty \/ run.broken THEN NoSnap
                ELSE [valid |-> TRUE, batch |-> run.batch,
                      nclients |-> Len(clients), nbackups |-> Len(backups),
                      events |-> events]
    /\ run' = IdleRun(run.no)
    /\ last' = Report(~run.broken, run.batch, run.faults,
                      IF run.broken THEN 1 ELSE run.errors, TRUE, TRUE,
                      IF run.broken THEN <<>> ELSE run.results,
                      IF run.broken THEN 0 ELSE run.events_created,
                      IF run.broken THEN "error" ELSE "complete")
    /\ UNCHANGED <<store, mailbox, now>>

(***************************************************************************)
(* Scheduled analysis: services/scheduler.py _daily_email_analysis         *)
(***************************************************************************)
\* fetch_emails(limit=100)
DailyLimit == 100

\* fetch_office365_emails names a message by its Graph id, here the
\* message's position in the mailbox; the provider of email_service.py names
\* it by its internetMessageId, another text for the same message
InternetMessageId(m) == 0 - m

\* Office365EmailProvider.fetch_emails: most recent first; a message whose
\* receivedDateTime does not parse is dropped
DailyFetched ==
    SelectSeq(Fetched(DailyLimit),
              LAMBDA m : mailbox[m].received_at \notin {NoTime, BadTime})

\* _create_backup_event: the backup of that source and task name, or the
\* only backup of that source
SchedulerBackup(bk, analysis) ==
    IF /\ analysis.task_name # <<>>
       /\ Cardinality({b \in DOMAIN bk : /\ bk[b].source_nas = analysis.source_nas
                                         /\ bk[b].name = analysis.task_name}) > 1
    THEN [raised |-> TRUE, row |-> NoRow]
    ELSE IF /\ analysis.task_name # <<>>
            /\ \E b \in DOMAIN bk : /\ bk[b].source_nas = analysis.source_nas
                                    /\ bk[b].name = analysis.task_name
    THEN [raised |-> FALSE,
          row |-> CHOOSE b \in DOMAIN bk : /\ bk[b].source_nas = analysis.source_nas
                                           /\ bk[b].name = analysis.task_name]
    ELSE IF Cardinality({b \in DOMAIN bk : bk[b].source_nas = analysis.source_nas}) = 1
    THEN [raised |-> FALSE,
          row |-> CHOOSE b \in DOMAIN bk : bk[b].source_nas = analysis.source_nas]
    ELSE [raised |-> FALSE, row |-> NoRow]

\* lines 187-197
SchedulerRecordOnBackup(b, event_type, received_at) ==
    IF event_type = "success"
    THEN [b EXCEPT !.last_success_at = received_at,
                   !.total_success_count = @ + 1,
                   !.current_status = "ok",
                   !.last_event_at = received_at]
    ELSE IF event_type = "failure"
    THEN [b EXCEPT !.last_failure_at = received_at,
                   !.total_failure_count = @ + 1,
                   !.current_status = "failed",
                   !.last_event_at = received_at]
    ELSE [b EXCEPT !.last_event_at = received_at]

\* the rows of the scheduler's session and whether an exception left the loop
DailyState(raised, bk, ev, em) ==
    [raised |-> raised, backups |-> bk, events |-> ev, emails |-> em]

\* _create_backup_event for the Email row email_id, given the backup found;
\* event_type is the analysis' status as it is, and a null one is refused by
\* the NOT NULL column
SchedulerCreateBackupEvent(bk, ev, em, found, email_id, analysis) ==
    IF found.raised THEN DailyState(TRUE, bk, ev, em)
    ELSE IF found.row = NoRow THEN DailyState(FALSE, bk, ev, em)
    ELSE IF analysis.status = "none" THEN DailyState(TRUE, bk, ev, em)
    ELSE DailyState(FALSE,
                    [bk EXCEPT ![found.row] =
                        SchedulerRecordOnBackup(@, analysis.status,
                                                em[email_id].received_at)],
                    Append(ev, [backup_id |-> found.row, email_id |-> email_id,
                                event_type |-> analysis.status,
                                event_date |-> em[email_id].received_at]),
                    em)

\* lines 94-126 for message m: skip a message_id already stored, else add the
\* Email row and, behind the gate, the event
DailyOne(m, existing, bk, ev, em) ==
    IF existing.raised THEN DailyState(TRUE, bk, ev, em)
    ELSE IF existing.row # NoRow THEN DailyState(FALSE, bk, ev, em)
    ELSE IF ~mailbox[m].storable THEN DailyState(TRUE, bk, ev, em)
    ELSE IF ~Attributable(mailbox[m].analysis)
    THEN DailyState(FALSE, bk, ev,
                    UpsertEmail(em, NoRow, InternetMessageId(m),
                                mailbox[m].received_at, mailbox[m].analysis, now))
    ELSE SchedulerCreateBackupEvent(
             bk, ev,
             UpsertEmail(em, NoRow, InternetMessageId(m),
                         mailbox[m].received_at, mailbox[m].analysis, now),
             SchedulerBackup(bk, mailbox[m].analysis),
             Len(em) + 1, mailbox[m].analysis)

\* the loop over the fetched messages from position k on
RECURSIVE DailyLoop(_, _, _)
DailyLoop(batch, k, s) ==
    IF s.raised \/ k > Len(batch) THEN s
    ELSE DailyLoop(batch, k + 1,
                   DailyOne(batch[k],
                            ScalarOneOrNone(EmailsByMessageId(
                                s.emails, InternetMessageId(batch[k]))),
                            s.backups, s.events, s.emails))

\* the whole job: one session, one commit after the loop; an exception
\* anywhere ends the job in its outer except with nothing committed
DailyEmailAnalysis ==
    /\ run.pc = "idle"
    /\ \E r \in {DailyLoop(DailyFetched, 1,
                           DailyState(FALSE, backups, events, emails))} :
         IF r.raised
         THEN /\ last' = [op |-> "daily", aborted |-> TRUE, fetched |-> DailyFetched]
              /\ UNCHANGED <<backups, events, emails, committed, snap>>
         ELSE /\ backups' = r.backups
              /\ events' = r.events
              /\ emails' = r.emails
              /\ committed' = Image(clients, r.backups, r.events, r.emails)
              /\ snap' = NoSnap
              /\ last' = [op |-> "daily", aborted |-> FALSE, fetched |-> DailyFetched]
    /\ UNCHANGED <<clients, alerts, mailbox, now, run>>

(***************************************************************************)
(* Retention: services/scheduler.py _cleanup_old_logs                      *)
(***************************************************************************)
\* what is left at the position of a deleted Email row: rows are named by
\* their position, and a deleted id is not given again
Deleted ==
    [message_id |-> 0, received_at |-> NoTime, is_backup_notification |-> FALSE,
     detected_status |-> "none", detected_client_id |-> NoRow, fetched_at |-> NoTime]

\* the WHERE clause of the DELETE at instant t
Expired(em, t) ==
    {e \in DOMAIN em : /\ em[e] # Deleted
                       /\ em[e].fetched_at < t - RetentionHours
                       /\ ~em[e].is_backup_notification}

\* the foreign key without its check
ForeignKeyHolds_Off(ev, gone) == TRUE

\* models/backup.py: backup_events.email_id references emails.id with no
\* ON DELETE rule, so a DELETE taking a referenced row is refused as a whole
ForeignKeyHolds(ev, gone) == \A x \in DOMAIN ev : ev[x].email_id \notin gone

Purge(em, gone) == [e \in DOMAIN em |-> IF e \in gone THEN Deleted ELSE em[e]]

\* the job, between runs: one DELETE and a commit; an exception is logged
\* and nothing is deleted
CleanupOldLogs ==
    /\ run.pc = "idle"
    /\ IF ForeignKeyHolds(events, Expired(emails, now))
       THEN /\ emails' = Purge(emails, Expired(emails, now))
            /\ committed' = [committed EXCEPT
                                !.emails = Purge(emails, Expired(emails, now))]
            /\ last' = [op |-> "cleanup", failed |-> FALSE,
                        deleted |-> Expired(emails, now)]
       ELSE /\ last' = [op |-> "cleanup", failed |-> TRUE, deleted |-> {}]
            /\ UNCHANGED <<emails, committed>>
    /\ snap' = NoSnap
    /\ UNCHANGED <<clients, backups, events, alerts, mailbox, now, run>>

(***************************************************************************)
(* Classifier when the oracle fails: services/ai_service.py                *)
(* AIAnalyzer.analyze_email and _fallback_analysis, emails_v2.py           *)
(* analyze_email_with_ai                                                   *)
(***************************************************************************)
BackupKeywords ==
    <<<<"b","a","c","k","u","p">>,
      <<"s","a","u","v","e","g","a","r","d","e">>,
      <<"h","y","p","e","r"," ","b","a","c","k","u","p">>,
      <<"a","c","t","i","v","e"," ","b","a","c","k","u","p">>>>

SuccessKeywords ==
    <<<<"r","é","u","s","s","i">>,
      <<"s","u","c","c","è","s">>,
      <<"s","u","c","c","e","s","s">>,
      <<"t","e","r","m","i","n","é","e">>,
      <<"e","f","f","e","c","t","u","é","e">>>>

FailureKeywords ==
    <<<<"é","c","h","o","u","é">>,
      <<"é","c","h","e","c">>,
      <<"f","a","i","l","e","d">>,
      <<"e","r","r","e","u","r">>,
      <<"e","r","r","o","r">>>>

\* any(kw in subject or kw in body for kw in keywords)
AnyKeyword(keywords, subject, body) ==
    \E k \in DOMAIN keywords :
        Contains(subject, keywords[k]) \/ Contains(body, keywords[k])

Digits == {"0","1","2","3","4","5","6","7","8","9"}

\* the characters \b takes for parts of a word, in an upper-cased text:
\* letters, digits, the underscore, accented letters
WordChars ==
    {Uppers[i] : i \in DOMAIN Uppers} \cup Digits
       \cup {"_", "é", "è", "à", "ù", "ç"}

IsWordAt(u, i) == i \in DOMAIN u /\ u[i] \in WordChars

\* \b(N[A-Z]{2,4}\d{1,2})\b matching u from position i with n letters after
\* the N and d digits
NasMatch(u, i, n, d) ==
    /\ i + n + d <= Len(u)
    /\ u[i] = "N"
    /\ \A j \in 1..n : IsUpperLetter(u[i + j])
    /\ \A j \in 1..d : u[i + n + j] \in Digits
    /\ ~IsWordAt(u, i - 1)
    /\ ~IsWordAt(u, i + n + d + 1)

NasMatchesAt(u, i) ==
    {nd \in (PrefixMinLetters..PrefixMaxLetters) \X (1..2) :
        NasMatch(u, i, nd[1], nd[2])}

\* the positions of u at which the pattern matches
NasStarts(u) == {i \in DOMAIN u : NasMatchesAt(u, i) # {}}

\* the text matched from position i: what the letters and digits found there
\* span
NasFrom(u, i, found) ==
    SubSeq(u, i, i + (CHOOSE k \in 3..6 : \E nd \in found : k = nd[1] + nd[2]))

\* the leftmost match in the upper-cased text u
LeftmostNas(u, starts) ==
    IF starts = {} THEN <<>>
    ELSE NasFrom(u, CHOOSE i \in starts : \A j \in starts : i <= j,
                 NasMatchesAt(u, CHOOSE i \in starts : \A j \in starts : i <= j))

\* re.search(..., re.IGNORECASE) on the text, group(1).upper(): the leftmost
\* match, None when there is none
FallbackSourceNas(text) == LeftmostNas(upper(text), NasStarts(upper(text)))

\* the notification type read from the lower-cased subject and body
FallbackNotificationType(s, b) ==
    IF AnyKeyword(BackupKeywords, s, b) THEN "backup"
    ELSE IF Contains(s, <<"s","é","c","u","r","i","t","é">>) \/ Contains(s, <<"s","e","c","u","r","i","t","y">>) THEN "security"
    ELSE IF Contains(s, <<"m","i","s","e"," ","à"," ","j","o","u","r">>) \/ Contains(s, <<"u","p","d","a","t","e">>) THEN "update"
    ELSE IF Contains(s, <<"o","n","d","u","l","e","u","r">>) \/ Contains(s, <<"u","p","s">>) THEN "ups"
    ELSE "other"

FallbackBackupType(s, b) ==
    IF Contains(b, <<"h","y","p","e","r"," ","b","a","c","k","u","p">>) \/ Contains(b, <<"n","e","t","w","o","r","k"," ","b","a","c","k","u","p">>) THEN "hyper_backup"
    ELSE IF Contains(b, <<"a","c","t","i","v","e"," ","b","a","c","k","u","p"," ","f","o","r"," ","b","u","s","i","n","e","s","s">>) THEN "active_backup"
    ELSE IF Contains(s, <<"r","s","y","n","c">>) \/ Contains(b, <<"r","s","y","n","c">>) THEN "rsync"
    ELSE "none"

\* success keywords are looked for first, failure keywords only if none is
\* found
FallbackStatus(s, b) ==
    IF AnyKeyword(SuccessKeywords, s, b) THEN "success"
    ELSE IF AnyKeyword(FailureKeywords, s, b) THEN "failure"
    ELSE "none"

FallbackConfidence == 30

\* _fallback_analysis
FallbackAnalysis(subject, body) ==
    [is_backup_notification |-> AnyKeyword(BackupKeywords, lower(subject), lower(body)),
     notification_type |-> FallbackNotificationType(lower(subject), lower(body)),
     backup_type |-> FallbackBackupType(lower(subject), lower(body)),
     status |-> FallbackStatus(lower(subject), lower(body)),
     source_nas |-> FallbackSourceNas(subject \o <<" ">> \o body),
     confidence |-> FallbackConfidence]

\* _parse_json_response on a text that is no JSON
UnparsedAnalysis ==
    [is_backup_notification |-> FALSE, notification_type |-> "other",
     backup_type |-> "none", status |-> "none", source_nas |-> <<>>,
     confidence |-> 0]

\* the except of analyze_email_with_ai, lines 254-264: no key
\* notification_type, confidence 0
FailedAnalysis ==
    [is_backup_notification |-> FALSE, notification_type |-> "none",
     backup_type |-> "none", status |-> "none", source_nas |-> <<>>,
     confidence |-> 0]

\* what the oracle does with one call: it raises, it answers a text that is
\* no JSON, or it answers the analysis `answer`
OracleOutcomes == {"raises", "garbled", "answers"}

\* AIAnalyzer.analyze_email
AnalyzeEmail(subject, body, outcome, answer) ==
    IF outcome = "raises" THEN FallbackAnalysis(subject, body)
    ELSE IF outcome = "garbled" THEN UnparsedAnalysis
    ELSE answer

\* analyze_email_with_ai
AnalyzeEmailWithAi(subject, body, outcome, answer) ==
    IF outcome \in {"raises", "garbled"} THEN FailedAnalysis ELSE answer

\* one classification, by the pipeline's function or by the scheduler's
Classify(path, subject, body, outcome, answer) ==
    /\ last' = [op |-> "classify", path |-> path, subject |-> subject,
                body |-> body, outcome |-> outcome,
                result |-> IF path = "pipeline"
                           THEN AnalyzeEmailWithAi(subject, body, outcome, answer)
                           ELSE AnalyzeEmail(subject, body, outcome, answer)]
    /\ UNCHANGED <<store, mailbox, now, run, snap, committed>>

(***************************************************************************)
(* Status Engine run, maintenance toggle, client API.  Each works in a     *)
(* session of its own and commits at once: its writes reach the rows the   *)
(* run's session sees and the committed rows alike.                        *)
(***************************************************************************)
UpdateBackupStatuses ==
    /\ backups # <<>>
    /\ backups' = [b \in DOMAIN backups |->
                     [backups[b] EXCEPT !.current_status = UpdatedStatus(backups[b], now)]]
    /\ alerts' = alerts \o NewAlerts(backups, 1, now)
    /\ committed' =
          [committed EXCEPT !.backups =
              [b \in DOMAIN committed.backups |->
                  [committed.backups[b] EXCEPT
                      !.current_status = UpdatedStatus(backups[b], now)]]]
    /\ last' = [op |-> "update", at |-> now]
    /\ UNCHANGED <<clients, events, emails, mailbox, now, run, snap>>

MaintenanceEnd == 49

\* backups.py toggle_maintenance(backup_id, enable, until)
ToggleMaintenance(b, enable, until) ==
    /\ b \in DOMAIN backups
    /\ backups' = [backups EXCEPT ![b].is_maintenance = enable,
                                  ![b].maintenance_until = IF enable THEN until ELSE NoTime]
    /\ backups' # backups
    /\ committed' =
          IF b \in DOMAIN committed.backups
          THEN [committed EXCEPT
                   !.backups[b].is_maintenance = enable,
                   !.backups[b].maintenance_until = IF enable THEN until ELSE NoTime]
          ELSE committed
    /\ last' = [op |-> "maintenance", backup |-> b]
    /\ UNCHANGED <<clients, events, emails, alerts, mailbox, now, run, snap>>

\* clients.py create_client: 400 when the short name is taken
CreateClient(short_name, nas_identifiers) ==
    /\ Len(clients) < MaxClients
    /\ IF ScalarOneOrNone(ClientsByShortName(clients, short_name)).row # NoRow
       THEN /\ last' = [op |-> "create_client", status |-> 400,
                         client |-> NoRow, short_name |-> short_name]
            /\ UNCHANGED <<clients, snap, run, committed>>
       ELSE /\ clients' = Append(clients, [short_name |-> short_name,
                                           nas_identifiers |-> nas_identifiers])
            /\ committed' =
                  [committed EXCEPT !.clients =
                      Append(@, [short_name |-> short_name,
                                 nas_identifiers |-> nas_identifiers])]
            /\ snap' = NoSnap
            /\ run' = [run EXCEPT !.replay = FALSE,
                                  !.dirty = (run.pc # "idle")]
            /\ last' = [op |-> "create_client", status |-> 201,
                         client |-> Len(clients) + 1, short_name |-> short_name]
    /\ UNCHANGED <<backups, events, emails, alerts, mailbox, now>>

\* the clients table without its unique index
UniqueShortNames_Off(cl) == TRUE

\* models/client.py: short_name unique = True, checked by the database when
\* the row is written
UniqueShortNames(cl) ==
    \A i, j \in DOMAIN cl : cl[i].short_name = cl[j].short_name => i = j

\* clients.py update_client(client_id, short_name), between runs: 404 for an
\* unknown id; 400 when the short name is given (non-empty), differs from the
\* client's and is taken; else the field is set and committed, and the
\* commit fails (500, rolled back) if the unique index refuses the row
UpdateClient(client_id, short_name) ==
    /\ run.pc = "idle"
    /\ client_id \in 1..MaxClients
    /\ IF client_id \notin DOMAIN clients
       THEN /\ last' = [op |-> "update_client", status |-> 404,
                         client |-> client_id, short_name |-> short_name]
            /\ UNCHANGED <<clients, committed, snap>>
       ELSE IF /\ short_name # <<>>
               /\ short_name # clients[client_id].short_name
               /\ ScalarOneOrNone(ClientsByShortName(clients, short_name)).row # NoRow
       THEN /\ last' = [op |-> "update_client", status |-> 400,
                         client |-> client_id, short_name |-> short_name]
            /\ UNCHANGED <<clients, committed, snap>>
       ELSE IF ~UniqueShortNames([clients EXCEPT ![client_id].short_name = short_name])
       THEN /\ last' = [op |-> "update_client", status |-> 500,
                         client |-> client_id, short_name |-> short_name]
            /\ UNCHANGED <<clients, committed, snap>>
       ELSE /\ clients' = [clients EXCEPT ![client_id].short_name = short_name]
            /\ committed' = [committed EXCEPT !.clients[client_id].short_name = short_name]
            /\ snap' = NoSnap
            /\ last' = [op |-> "update_client", status |-> 200,
                         client |-> client_id, short_name |-> short_name]
    /\ UNCHANGED <<backups, events, emails, alerts, mailbox, now, run>>

(***************************************************************************)
(* Alerts API: alerts.py generate_alerts_from_backups, resolve_alert        *)
(***************************************************************************)
MaxAlerts == 4

\* the look-up of lines 235-243 with no condition that any alert meets
ExistingFailedAlerts_None(al, b) == {}

\* lines 235-243: the unresolved backup_failed alerts of a backup
ExistingFailedAlerts(al, b) ==
    {a \in DOMAIN al :
        /\ al[a].backup_id = b
        /\ al[a].alert_type = "backup_failed"
        /\ ~al[a].is_resolved}

\* lines 227-230: the backups whose status is failed
FailedBackups(bk) == {b \in DOMAIN bk : bk[b].current_status = "failed"}

\* lines 246-256
FailedAlert(bk, b) ==
    [alert_type |-> "backup_failed", severity |-> "critical",
     client_id |-> bk[b].client_id, backup_id |-> b, is_resolved |-> FALSE]

\* the loop of lines 233-258 from backup `from` on: the alerts it adds
RECURSIVE FailedAlerts(_, _, _)
FailedAlerts(bk, al, from) ==
    IF from > Len(bk) THEN <<>>
    ELSE (IF /\ from \in FailedBackups(bk)
             /\ ScalarOneOrNone(ExistingFailedAlerts(al, from)).row = NoRow
          THEN <<FailedAlert(bk, from)>> ELSE <<>>)
         \o FailedAlerts(bk, al, from + 1)

\* generate_alerts_from_backups, between runs; a look-up that finds two
\* alerts raises and the request ends without commit
GenerateAlertsFromBackups ==
    /\ run.pc = "idle"
    /\ Len(alerts) + Cardinality(FailedBackups(backups)) <= MaxAlerts
    /\ IF \E b \in FailedBackups(backups) :
             ScalarOneOrNone(ExistingFailedAlerts(alerts, b)).raised
       THEN /\ alerts' = alerts
            /\ last' = [op |-> "generate", raised |-> TRUE, created |-> 0]
       ELSE /\ alerts' = alerts \o FailedAlerts(backups, alerts, 1)
            /\ last' = [op |-> "generate", raised |-> FALSE,
                         created |-> Len(FailedAlerts(backups, alerts, 1))]
    /\ UNCHANGED <<clients, backups, events, emails, mailbox, now, run, snap,
                   committed>>

\* resolve_alert(alert_id): 404 for an unknown id
ResolveAlert(alert_id) ==
    /\ alert_id \in 1..MaxAlerts
    /\ IF alert_id \notin DOMAIN alerts
       THEN /\ alerts' = alerts
            /\ last' = [op |-> "resolve", status |-> 404, alert |-> alert_id]
       ELSE /\ alerts' = [alerts EXCEPT ![alert_id].is_resolved = TRUE]
            /\ last' = [op |-> "resolve", status |-> 200, alert |-> alert_id]
    /\ UNCHANGED <<clients, backups, events, emails, mailbox, now, run, snap,
                   committed>>

(***************************************************************************)
(* Inputs and specifications                                               *)
(***************************************************************************)
\* one backup job reporting every outcome the classifier can name
StatusSignals ==
    {Signal(NABO03, "hyper_backup", Daily, <<>>, st) :
        st \in {"success", "failure", "warning", "info"}}

OutcomeSignals ==
    {Signal(NABO03, "hyper_backup", Daily, <<>>, st) : st \in {"success", "failure"}}

\* jobs that differ in source, type, task name and devices
ResolveSignals ==
    {Signal(src, type, task, <<>>, "success") :
        src \in {NABO03, NABO04}, type \in {"hyper_backup"},
        task \in {<<>>, Daily, DailyFull}}
    \cup {NotBackup}

ApiShortNames == {ABO, NABO}

ApiNasLists == {<<>>, <<NABO03>>}

Pipeline == StartRun(TRUE, TRUE) \/ ProcessEmail \/ FinishRun

Maintenance ==
    \E b \in DOMAIN backups, enable \in BOOLEAN, until \in {NoTime, MaintenanceEnd} :
        ToggleMaintenance(b, enable, until)

ClientApi ==
    \E short_name \in ApiShortNames, nas_identifiers \in ApiNasLists :
        CreateClient(short_name, nas_identifiers)

\* the Event Recorder on one job: every outcome, every shape of received time,
\* an oracle that may change its answer, two instants
NextRecord ==
    \/ \E a \in StatusSignals, r \in {now, NoTime, BadTime} : Arrive(a, r)
    \/ \E m \in DOMAIN mailbox, a \in StatusSignals : Reclassify(m, a)
    \/ Pipeline
    \/ \E t \in 0..MaxRecordNow : Tick(t)

SpecRecord == Init /\ [][NextRecord]_vars

\* the Status Engine on one job: successes and failures arriving while the
\* clock crosses every threshold
NextStatus ==
    \/ \E a \in OutcomeSignals : Arrive(a, now)
    \/ (now <= MaxRecordNow /\ Pipeline)
    \/ \E t \in 0..MaxNow : Tick(t)
    \/ UpdateBackupStatuses
    \/ Maintenance

SpecStatus == Init /\ [][NextStatus]_vars

\* entity resolution over several jobs and clients
NextResolve ==
    \/ \E a \in ResolveSignals : Arrive(a, now)
    \/ Pipeline
    \/ ClientApi

SpecResolve == Init /\ [][NextResolve]_vars

\* a backup notification in which the classifier found no source
NoSource == Signal(<<>>, "hyper_backup", Daily, <<>>, "success")

\* one attributable job, a notification without source, an email that is no
\* backup notification
IngestSignals ==
    {Signal(NABO03, "hyper_backup", Daily, <<>>, "success"), NoSource, NotBackup}

\* the settings of a run: provider credentials present or not, API key of the
\* selected AI provider present or not
Configured == \E creds_ok \in BOOLEAN, key_ok \in BOOLEAN : StartRun(creds_ok, key_ok)

\* operators registering the same NAS under two clients
IngestClientApi ==
    \E short_name \in {ABO, SRV1} : CreateClient(short_name, <<NABO03>>)

\* batches under every configuration, with emails that cannot be attributed
\* and emails that cannot be stored
NextIngest ==
    \/ \E a \in IngestSignals : Arrive(a, now)
    \/ \E a \in IngestSignals : ArriveOversize(a)
    \/ Configured
    \/ ProcessEmail
    \/ ProcessEmailRaced
    \/ FinishRun
    \/ DailyEmailAnalysis
    \/ IngestClientApi

SpecIngest == Init /\ [][NextIngest]_vars

\* short names an operator may type, the empty one included
OperatorShortNames == {ABO, NABO, <<>>}

\* clients created and renamed by operators while runs auto-create clients
\* for two NAS of one prefix
NextClients ==
    \/ \E src \in {NABO03, NABO04} :
          Arrive(Signal(src, "hyper_backup", Daily, <<>>, "success"), now)
    \/ Pipeline
    \/ \E short_name \in OperatorShortNames, nas_identifiers \in ApiNasLists :
          CreateClient(short_name, nas_identifiers)
    \/ \E client_id \in 1..MaxClients, short_name \in OperatorShortNames :
          UpdateClient(client_id, short_name)

SpecClients == Init /\ [][NextClients]_vars

\* a backup notification and another email
CleanupSignals == {Signal(NABO03, "hyper_backup", Daily, <<>>, "success"), NotBackup}

\* emails stored and re-classified by runs before and after the retention
\* cutoff passes, and the cleanup job on both sides of it
NextCleanup ==
    \/ \E a \in CleanupSignals : Arrive(a, now)
    \/ \E m \in DOMAIN mailbox, a \in CleanupSignals : Reclassify(m, a)
    \/ Pipeline
    \/ \E t \in {RetentionHours, RetentionHours + 1} : Tick(t)
    \/ CleanupOldLogs

SpecCleanup == Init /\ [][NextCleanup]_vars

\* runs over a full mailbox of emails that are no notifications and of
\* notifications of a NAS that operators may have registered under two
\* clients
CommitSignals == {NotBackup, Signal(NABO03, "hyper_backup", Daily, <<>>, "success")}

NextCommit ==
    \/ \E a \in CommitSignals : ArriveInBatch(a)
    \/ IngestClientApi
    \/ StartRunWithLimit(TRUE, TRUE, MaxBatch)
    \/ ProcessEmail
    \/ FinishRun

SpecCommit == Init /\ [][NextCommit]_vars

\* runs under every configuration over notifications and other emails, some
\* of them with an oracle answer that the report's schema refuses
ReportSignals ==
    {NotBackup} \cup
    {Signal(NABO03, "hyper_backup", Daily, <<>>, st) : st \in {"success", "failure"}}

NextReport ==
    \/ \E a \in ReportSignals : Arrive(a, now)
    \/ \E a \in ReportSignals : ArriveMistyped(a)
    \/ Configured
    \/ ProcessEmail
    \/ FinishRun

SpecReport == Init /\ [][NextReport]_vars

\* two jobs of one client failing and recovering, alerts generated for them
\* and resolved by operators
AlertSignals ==
    {Signal(src, "hyper_backup", Daily, <<>>, st) :
        src \in {NABO03, NABO04}, st \in {"success", "failure"}}

NextAlerts ==
    \/ \E a \in AlertSignals : Arrive(a, now)
    \/ Pipeline
    \/ GenerateAlertsFromBackups
    \/ \E alert_id \in 1..MaxAlerts : ResolveAlert(alert_id)

SpecAlerts == Init /\ [][NextAlerts]_vars

\* subjects and bodies of notifications: failures in French and English,
\* in capitals, beside a word of the success list, a success, no keyword
ClassifySubjects == {<<>>, <<"S","a","u","v","e","g","a","r","d","e"," ","N","A","B","O","0","3">>}

ClassifyBodies ==
    {<<"f","a","i","l","e","d">>,
     <<"é","c","h","e","c">>,
     <<"B","a","c","k","u","p"," ","F","A","I","L","E","D">>,
     <<"t","â","c","h","e"," ","t","e","r","m","i","n","é","e",":"," ","é","c","h","e","c">>,
     <<"n","o","t"," ","s","u","c","c","e","s","s","f","u","l",":"," ","f","a","i","l","e","d">>,
     <<"s","u","c","c","e","s","s">>,
     <<"b","o","n","j","o","u","r">>}

OracleAnswers ==
    {[is_backup_notification |-> TRUE, notification_type |-> "backup",
      backup_type |-> "hyper_backup", status |-> st, source_nas |-> NABO03,
      confidence |-> 95] : st \in {"success", "failure", "warning"}}

NextClassify ==
    \E path \in {"pipeline", "scheduler"}, subject \in ClassifySubjects,
       body \in ClassifyBodies, outcome \in OracleOutcomes, answer \in OracleAnswers :
        Classify(path, subject, body, outcome, answer)

SpecClassify == Init /\ [][NextClassify]_vars

Next ==
    \/ NextRecord \/ NextStatus \/ NextResolve \/ NextIngest \/ NextClients
    \/ NextCleanup \/ NextClassify \/ NextCommit
    \/ NextReport \/ NextAlerts

Spec == Init /\ [][Next]_vars

(***************************************************************************)
(* Properties                                                              *)
(***************************************************************************)
IsUpdate == last'.op = "update"

IsProcess == last'.op = "process"

NewAlertsOf(b) ==
    {i \in (Len(alerts) + 1)..Len(alerts') : alerts'[i].backup_id = b}

\* C2: create_backup_event for a (backup, email) pair that already has an
\* event returns that event with created = false, inserts nothing and leaves
\* the backup row as it was, whatever the signal of the second call.
C2_ExistingEventReturned ==
    [][(/\ IsProcess
        /\ last'.backup \in DOMAIN backups
        /\ EventsOf(events, last'.backup, last'.email) # {})
       => (/\ last'.stage = "recorded"
           /\ ~last'.event_new
           /\ last'.event \in EventsOf(events, last'.backup, last'.email)
           /\ events' = events
           /\ backups'[last'.backup] = backups[last'.backup])]_vars

\* a second call whose signal is a failure, answered with the success event
\* recorded by the first call
C2_Witness ==
    /\ last.op = "process"
    /\ last.stage = "recorded"
    /\ ~last.event_new
    /\ last.analysis.status = "failure"
    /\ events[last.event].event_type = "success"
    /\ backups[last.backup].current_status = "ok"

\* C3: a run of the Status Engine leaves an active, non-maintenance backup
\* whose status is failed at failed.
C3_FailedSurvivesUpdate ==
    [][IsUpdate =>
         \A b \in DOMAIN backups :
            (/\ backups[b].current_status = "failed"
             /\ backups[b].is_active
             /\ ~backups[b].is_maintenance)
            => backups'[b].current_status = "failed"]_vars

\* C4: for an active, non-maintenance backup with a last success at T, a run
\* at time now sets the status to ok up to 24 h, warning up to 48 h, alert up
\* to 72 h and critical beyond, each boundary in the lower bucket.
C4_ClockBuckets ==
    [][IsUpdate =>
         \A b \in DOMAIN backups :
            (/\ backups[b].is_active
             /\ ~backups[b].is_maintenance
             /\ backups[b].last_success_at # NoTime)
            => LET elapsed == now - backups[b].last_success_at
               IN  /\ elapsed <= 24 => backups'[b].current_status = "ok"
                   /\ (24 < elapsed /\ elapsed <= 48)
                         => backups'[b].current_status = "warning"
                   /\ (48 < elapsed /\ elapsed <= 72)
                         => backups'[b].current_status = "alert"
                   /\ elapsed > 72 => backups'[b].current_status = "critical"]_vars

\* a run exactly 72 h after the last success has left the backup at alert
C4_Witness ==
    /\ last.op = "update"
    /\ \E b \in DOMAIN backups :
          /\ backups[b].is_active
          /\ ~backups[b].is_maintenance
          /\ backups[b].last_success_at # NoTime
          /\ last.at - backups[b].last_success_at = 72
          /\ backups[b].current_status = "alert"

\* C5: a run creates an Alert for a backup exactly when the new status is
\* alert or critical and differs from the status before the run, and then
\* exactly one, of severity equal to the new status.
C5_AlertOnEscalationOnly ==
    [][IsUpdate =>
         /\ SubSeq(alerts', 1, Len(alerts)) = alerts
         /\ \A i \in (Len(alerts) + 1)..Len(alerts') :
               alerts'[i].backup_id \in DOMAIN backups
         /\ \A b \in DOMAIN backups :
               IF /\ backups'[b].current_status \in {"alert", "critical"}
                  /\ backups'[b].current_status # backups[b].current_status
               THEN /\ Cardinality(NewAlertsOf(b)) = 1
                    /\ \A i \in NewAlertsOf(b) :
                          alerts'[i].severity = backups'[b].current_status
               ELSE NewAlertsOf(b) = {}]_vars

\* a backup that escalated twice: one Alert of each severity, and a run that
\* found it critical already and added nothing
C5_Witness ==
    /\ last.op = "update"
    /\ \E b \in DOMAIN backups :
          /\ backups[b].current_status = "critical"
          /\ {alerts[i].severity : i \in {j \in DOMAIN alerts : alerts[j].backup_id = b}}
                = {"alert", "critical"}
          /\ Cardinality({j \in DOMAIN alerts : alerts[j].backup_id = b}) = 2

\* C6: a run leaves the status of a backup in maintenance whose
\* maintenance_until lies in the future as it was and creates no Alert for it.
C6_MaintenanceSuppresses ==
    [][IsUpdate =>
         \A b \in DOMAIN backups :
            (/\ backups[b].is_maintenance
             /\ backups[b].maintenance_until # NoTime
             /\ backups[b].maintenance_until > now)
            => /\ backups'[b].current_status = backups[b].current_status
               /\ NewAlertsOf(b) = {}]_vars

\* a run has passed over a backup in maintenance that is still ok more than
\* 24 h after its last success
C6_Witness ==
    /\ last.op = "update"
    /\ \E b \in DOMAIN backups :
          /\ backups[b].is_active
          /\ backups[b].is_maintenance
          /\ backups[b].maintenance_until > last.at
          /\ backups[b].last_success_at # NoTime
          /\ last.at - backups[b].last_success_at > 24
          /\ backups[b].current_status = "ok"

\* the backup row an event is recorded on, as it was before the step: the
\* stored row, or the defaults of the row the same step has just inserted
RowBefore ==
    IF last'.backup \in DOMAIN backups
    THEN backups[last'.backup]
    ELSE NewBackup(last'.client, last'.analysis)

\* C7: a new event has type success, failure or warning for those signals and
\* unknown for every other; a success sets last_success_at to the event
\* timestamp, adds one to total_success_count and sets the status to ok; a
\* failure sets last_failure_at, adds one to total_failure_count and sets the
\* status to failed; a warning or unknown event leaves these fields alone.
C7_EventAggregates ==
    [][(IsProcess /\ last'.stage = "recorded" /\ last'.event_new) =>
         LET e == events'[last'.event]
             st == last'.analysis.status
             old == RowBefore
             new == backups'[last'.backup]
         IN  /\ e.event_type =
                   (IF st \in {"success", "failure", "warning"} THEN st
                    ELSE "unknown")
             /\ e.event_type = "success" =>
                   /\ new.last_success_at = e.event_date
                   /\ new.total_success_count = old.total_success_count + 1
                   /\ new.current_status = "ok"
             /\ e.event_type = "failure" =>
                   /\ new.last_failure_at = e.event_date
                   /\ new.total_failure_count = old.total_failure_count + 1
                   /\ new.current_status = "failed"
             /\ e.event_type \in {"warning", "unknown"} =>
                   /\ new.last_success_at = old.last_success_at
                   /\ new.last_failure_at = old.last_failure_at
                   /\ new.total_success_count = old.total_success_count
                   /\ new.total_failure_count = old.total_failure_count
                   /\ new.current_status = old.current_status]_vars

\* C8: last_event_at of a backup never decreases; stated here for the steps
\* that record an event of an email with a received time, which are the
\* steps the recorder timestamps itself.
C8_LastEventMonotonic ==
    [][(/\ IsProcess
        /\ last'.stage = "recorded"
        /\ last'.event_new
        /\ emails'[last'.email].received_at # NoTime)
       => backups'[last'.backup].last_event_at >= RowBefore.last_event_at]_vars

\* C1: a second run over the same batch creates no Client, no Backup and no
\* BackupEvent, and no (backup, email) pair ever has two events.
C1_SecondRunIdempotent ==
    /\ run.replay =>
          /\ Len(clients) = snap.nclients
          /\ Len(backups) = snap.nbackups
          /\ events = snap.events
    /\ \A i, j \in DOMAIN events :
          (/\ events[i].backup_id = events[j].backup_id
           /\ events[i].email_id = events[j].email_id) => i = j

\* the result of resolving a signal against a store: client, then backup
Resolve(cl, bk, analysis) ==
    LET c == GetOrCreateClient(cl, SourceNasOf(analysis))
        b == IF c.raised THEN [raised |-> TRUE, backups |-> bk,
                               backup |-> NoRow, created |-> FALSE]
             ELSE GetOrCreateBackup(bk, c.client, analysis)
    IN  [raised |-> c.raised \/ b.raised, clients |-> c.clients,
         backups |-> b.backups, client |-> c.client, backup |-> b.backup,
         client_new |-> c.created, backup_new |-> b.created]

\* C9: resolving the same signal twice in succession returns the same Client
\* and Backup, with both created flags false the second time; and a signal
\* NABO03 / hyper_backup / Daily against a store with no client NABO and no
\* client listing NABO03 creates one Client NABO and one Backup whose name
\* contains Daily.
C9_ResolveTwice ==
    /\ \A a \in ResolveSignals \ {NotBackup} :
          LET r1 == Resolve(clients, backups, a)
              r2 == Resolve(r1.clients, r1.backups, a)
          IN  /\ ~r1.raised
              /\ ~r2.raised
              /\ r2.client = r1.client
              /\ r2.backup = r1.backup
              /\ ~r2.client_new
              /\ ~r2.backup_new
    /\ (/\ ClientsByShortName(clients, NABO) = {}
        /\ ClientsByNasIdentifier(clients, NABO03) = {})
       => LET r == Resolve(clients, backups,
                           Signal(NABO03, "hyper_backup", Daily, <<>>, "success"))
          IN  /\ ~r.raised
              /\ Len(r.clients) = Len(clients) + 1
              /\ r.clients[r.client].short_name = NABO
              /\ Len(r.backups) = Len(backups) + 1
              /\ Contains(r.backups[r.backup].name, Daily)

\* C10: when two or more Backups match a signal, the pipeline step selects
\* one of them, creates no Backup, does not fail, and records the event on
\* the selected Backup.
C10_AmbiguousMatchResolved ==
    [][(/\ IsProcess
        /\ last'.client \in DOMAIN clients
        /\ Cardinality(MatchingBackups(backups, last'.client, last'.analysis)) >= 2)
       => /\ last'.stage = "recorded"
          /\ last'.backup \in MatchingBackups(backups, last'.client, last'.analysis)
          /\ Len(backups') = Len(backups)
          /\ EventsOf(events', last'.backup, last'.email) # {}]_vars

\* C20: for a backup with is_maintenance = true whose maintenance_until has
\* passed, a run of the Status Engine recomputes the status by the clock
\* rules as for a backup that is not in maintenance.
C20_ExpiredMaintenanceRecomputed ==
    [][IsUpdate =>
         \A b \in DOMAIN backups :
            (/\ backups[b].is_active
             /\ backups[b].is_maintenance
             /\ backups[b].maintenance_until # NoTime
             /\ backups[b].maintenance_until < now
             /\ backups[b].last_success_at # NoTime)
            => LET elapsed == now - backups[b].last_success_at
               IN  backups'[b].current_status =
                      (IF elapsed <= 24 THEN "ok"
                       ELSE IF elapsed <= 48 THEN "warning"
                       ELSE IF elapsed <= 72 THEN "alert"
                       ELSE "critical")]_vars

\* C15: an iteration of fetch_and_analyze_emails that is not left through an
\* exception, on an email whose analysis has is_backup_notification = false
\* or no source, resolves nothing and records nothing: clients, backups and
\* events stay as they are and the only change is the insert or the update
\* of that email's row.  _daily_email_analysis never touches a client, adds
\* events only for emails whose analysis is a backup notification with a
\* source, and changes only backups that received such an event.
C15_UnattributableOnlyEmail ==
    [][/\ (/\ IsProcess
           /\ last'.stage \notin RaisedStages
           /\ (~last'.analysis.is_backup_notification \/ last'.analysis.source_nas = <<>>))
          => (/\ last'.stage = "not_attributed"
              /\ clients' = clients
              /\ backups' = backups
              /\ events' = events
              /\ last'.email \in DOMAIN emails'
              /\ Len(emails') \in {Len(emails), Len(emails) + 1}
              /\ \A e \in DOMAIN emails : e # last'.email => emails'[e] = emails[e]
              /\ emails'[last'.email].is_backup_notification
                    = last'.analysis.is_backup_notification
              /\ emails'[last'.email].detected_client_id
                    = (IF last'.email \in DOMAIN emails
                       THEN emails[last'.email].detected_client_id ELSE NoRow))
       /\ last'.op = "daily"
          => (/\ clients' = clients
              /\ Len(backups') = Len(backups)
              /\ \A e \in DOMAIN events : events'[e] = events[e]
              /\ \A e \in (Len(events) + 1)..Len(events') :
                    \E m \in DOMAIN mailbox :
                       /\ emails'[events'[e].email_id].message_id = InternetMessageId(m)
                       /\ events'[e].email_id \notin DOMAIN emails
                       /\ mailbox[m].analysis.is_backup_notification
                       /\ mailbox[m].analysis.source_nas # <<>>
              /\ \A b \in DOMAIN backups :
                    backups'[b] # backups[b]
                       => \E e \in (Len(events) + 1)..Len(events') :
                             events'[e].backup_id = b)]_vars

\* a notification without source passed through the loop of a store that
\* already holds a client, a backup and an event
C15_Witness ==
    /\ last.op = "process"
    /\ last.stage = "not_attributed"
    /\ last.analysis.is_backup_notification
    /\ last.analysis.source_nas = <<>>
    /\ events # <<>>

\* C13: a run started while the provider credentials or the API key of the
\* selected AI provider are missing answers with a report whose success is
\* false, analyzes nothing and leaves every row as it was.
C13_MissingConfigFails ==
    [][(/\ run.pc = "idle"
        /\ last'.op = "report"
        /\ (~last'.creds_ok \/ ~last'.key_ok))
       => (/\ ~last'.success
           /\ run'.pc = "idle"
           /\ store' = store
           /\ committed' = committed)]_vars

\* C11: when a run's report names emails whose processing raised, the report
\* has success = true with an error entry, and every other email of the
\* batch has been processed and its Email row is among the committed rows.
C11_BatchSurvivesFaultyEmail ==
    (last.op = "report" /\ last.faults # {})
       => (/\ last.success
           /\ last.errors >= Cardinality(last.faults)
           /\ \A k \in DOMAIN last.batch :
                 last.batch[k] \notin last.faults
                    => EmailsByMessageId(committed.emails, last.batch[k]) # {})

\* C12: the commit that ends a batch persists no write made for an email
\* whose processing raised: the committed Email rows of such an email are
\* those committed before, unchanged.
C12_FaultyEmailNotPersisted ==
    [][(last'.op = "report" /\ run.pc = "analyzing")
       => \A m \in run.faults :
             \A e \in EmailsByMessageId(committed'.emails, m) :
                /\ e \in DOMAIN committed.emails
                /\ committed'.emails[e] = committed.emails[e]]_vars

\* C18: when the Client a run is about to auto-create is committed by a
\* concurrent run first, the run takes the clash as already-exists: the
\* iteration completes with the existing Client, the run stays able to
\* process its remaining emails, and one Client has that short_name.
C18_ClashTreatedAsExisting ==
    [][(IsProcess /\ last'.clash)
       => (/\ last'.stage = "recorded"
           /\ ~run'.broken
           /\ last'.client \in
                 ClientsByShortName(clients', ClientPrefix(last'.analysis.source_nas))
           /\ Cardinality(ClientsByShortName(
                 clients', ClientPrefix(last'.analysis.source_nas))) = 1)]_vars

\* C17: whatever runs of fetch_and_analyze_emails and _daily_email_analysis
\* have fetched a message, the emails table holds at most one row for it and
\* at most one row per message_id.
C17_OneRowPerMessage ==
    /\ \A m \in DOMAIN mailbox :
          Cardinality({e \in DOMAIN emails :
                          emails[e].message_id \in {m, InternetMessageId(m)}}) <= 1
    /\ \A i, j \in DOMAIN emails :
          emails[i].message_id = emails[j].message_id => i = j

\* C16: after every step of create_client, update_client and the runs'
\* get_or_create_client no two clients have the same short_name; a
\* create_client or update_client asking for a short_name that another
\* client has is answered with an error and changes no row.
C16_ShortNameUnique ==
    [][/\ \A i, j \in DOMAIN clients' :
             clients'[i].short_name = clients'[j].short_name => i = j
       /\ (/\ last'.op \in {"create_client", "update_client"}
           /\ \E c \in DOMAIN clients :
                 c # last'.client /\ clients[c].short_name = last'.short_name)
          => (/\ last'.status \in {400, 404, 500}
              /\ store' = store
              /\ committed' = committed)]_vars

\* a rename to the short name of a client that a run created, refused
C16_Witness ==
    /\ last.op = "update_client"
    /\ last.status = 400
    /\ last.client \in DOMAIN clients
    /\ \E c \in DOMAIN clients :
          c # last.client /\ clients[c].short_name = last.short_name
    /\ \E b \in DOMAIN backups : clients[backups[b].client_id].short_name = last.short_name

\* C19: a row that _cleanup_old_logs deletes is an email with
\* is_backup_notification = false, fetched before the retention cutoff, that
\* no BackupEvent references, whatever the email was classified as before;
\* every other row, and every event, is left as it was.
C19_CleanupKeepsReferenced ==
    [][last'.op = "cleanup"
       => (/\ events' = events
           /\ DOMAIN emails' = DOMAIN emails
           /\ \A e \in DOMAIN emails :
                 emails'[e] # emails[e]
                    => (/\ emails'[e] = Deleted
                        /\ ~emails[e].is_backup_notification
                        /\ emails[e].fetched_at + RetentionHours < now
                        /\ \A x \in DOMAIN events : events[x].email_id # e))]_vars

\* a cleanup that deleted an old email and kept a backup notification of the
\* same age, which an event references
C19_Witness ==
    /\ last.op = "cleanup"
    /\ last.deleted # {}
    /\ \E e \in DOMAIN emails :
          /\ emails[e].is_backup_notification
          /\ emails[e].fetched_at + RetentionHours < now
          /\ \E x \in DOMAIN events : events[x].email_id = e

\* C14: when the oracle call raises, the classification has confidence <= 30
\* and carries what the keywords say: a body containing 'échec' or 'failed'
\* gives status = failure.
C14_FallbackOnOracleFailure ==
    (last.op = "classify" /\ last.outcome = "raises")
       => (/\ last.result.confidence <= 30
           /\ (\/ Contains(last.body, <<"é","c","h","e","c">>)
               \/ Contains(last.body, <<"f","a","i","l","e","d">>))
              => last.result.status = "failure")

\* C21: a run of _update_backup_statuses gives every active backup that is
\* not in maintenance and has no last_success_at the status unknown, and
\* adds no alert for it.
C21_NoSuccessIsUnknown ==
    [][IsUpdate
       => \A b \in DOMAIN backups :
             (/\ backups[b].is_active
              /\ ~backups[b].is_maintenance
              /\ backups[b].last_success_at = NoTime)
                => (/\ backups'[b].current_status = "unknown"
                    /\ NewAlertsOf(b) = {})]_vars

\* a backup that only ever failed, after a run of the job
C21_Witness ==
    /\ last.op = "update"
    /\ \E b \in DOMAIN backups :
          /\ backups[b].is_active
          /\ ~backups[b].is_maintenance
          /\ backups[b].last_success_at = NoTime
          /\ backups[b].last_failure_at # NoTime
          /\ backups[b].current_status = "unknown"

\* C22: when the oracle answers a text from which no JSON object can be
\* parsed, the classification is the one the keyword heuristic gives for
\* that email, confidence 30 included.
C22_FallbackOnUnparsableAnswer ==
    (last.op = "classify" /\ last.outcome = "garbled")
       => last.result = FallbackAnalysis(last.subject, last.body)

\* C23: get_or_create_client returns the Client whose short_name is the
\* identifier's prefix if there is one; otherwise the Client whose
\* nas_identifiers contains the upper-cased identifier if there is one;
\* otherwise it creates a Client with short_name = prefix and
\* nas_identifiers = [identifier].  It creates only in the third case, and
\* the returned Client lists the upper-cased identifier exactly once.
C23_ClientResolutionOrder ==
    [][(/\ IsProcess
        /\ last'.analysis.is_backup_notification
        /\ last'.analysis.source_nas # <<>>
        /\ last'.stage \notin {"email_raised", "flush_raised", "session_raised",
                               "client_clash"})
       => LET id == upper(last'.analysis.source_nas)
              byShort == {c \in DOMAIN clients :
                             clients[c].short_name = ClientPrefix(id)}
              byNas == {c \in DOMAIN clients :
                           \E i \in DOMAIN clients[c].nas_identifiers :
                               clients[c].nas_identifiers[i] = id}
          IN  /\ last'.stage # "client_raised"
              /\ IF byShort # {}
                 THEN last'.client \in byShort /\ ~last'.client_new
                 ELSE IF byNas # {}
                 THEN last'.client \in byNas /\ ~last'.client_new
                 ELSE /\ last'.client_new
                      /\ last'.client \notin DOMAIN clients
                      /\ clients'[last'.client].short_name = ClientPrefix(id)
                      /\ clients'[last'.client].nas_identifiers = <<id>>
              /\ Cardinality({i \in DOMAIN clients'[last'.client].nas_identifiers :
                                 clients'[last'.client].nas_identifiers[i] = id}) = 1]_vars

\* C25: last_success_at of a backup is the latest timestamp among its success
\* events: a step that records a success of an email with a received time
\* never moves last_success_at backwards.
C25_LastSuccessNeverBackwards ==
    [][(/\ IsProcess
        /\ last'.stage = "recorded"
        /\ last'.event_new
        /\ events'[last'.event].event_type = "success"
        /\ emails'[last'.email].received_at # NoTime)
       => /\ backups'[last'.backup].last_success_at >= RowBefore.last_success_at
          /\ \A e \in DOMAIN events' :
                (/\ events'[e].backup_id = last'.backup
                 /\ events'[e].event_type = "success")
                   => backups'[last'.backup].last_success_at >= events'[e].event_date]_vars

\* the backups after two resolutions, and the name of the row each signal
\* was attached to
ResolvedPair(r1, r2) ==
    [rows |-> {r2.backups[i] : i \in DOMAIN r2.backups},
     first |-> IF r1.raised THEN "raised" ELSE r2.backups[r1.backup].name,
     second |-> IF r2.raised THEN "raised" ELSE r2.backups[r2.backup].name]

ResolveSecond(r1, a2) == ResolvedPair(r1, Resolve(r1.clients, r1.backups, a2))

\* two signals resolved one after the other against a store
ResolveInOrder(cl, bk, a1, a2) == ResolveSecond(Resolve(cl, bk, a1), a2)

SameResolution(ab, ba) ==
    /\ ab.rows = ba.rows
    /\ ab.first = ba.second
    /\ ab.second = ba.first

\* C27: for two signals of one client in the store, with the same source and
\* backup type, such as the tasks Daily and Daily Full, resolving A then B
\* and resolving B then A give the same set of Backups and attach each
\* signal to the same Backup.
C27_ResolutionOrderIndependent ==
    \A a, b \in ResolveSignals \ {NotBackup} :
        (/\ a.source_nas = b.source_nas
         /\ a.backup_type = b.backup_type
         /\ ClientsByShortName(clients, ClientPrefix(a.source_nas)) # {})
           => SameResolution(ResolveInOrder(clients, backups, a, b),
                             ResolveInOrder(clients, backups, b, a))

\* C26: after any sequence of pipeline runs, replays and iterations left
\* through an exception included, every Backup has total_success_count equal
\* to the number of its success events and total_failure_count equal to the
\* number of its failure events, in the session and in the committed rows.
C26_CountersMatchEvents ==
    /\ \A b \in DOMAIN backups :
          /\ backups[b].total_success_count =
                Cardinality({e \in DOMAIN events :
                                /\ events[e].backup_id = b
                                /\ events[e].event_type = "success"})
          /\ backups[b].total_failure_count =
                Cardinality({e \in DOMAIN events :
                                /\ events[e].backup_id = b
                                /\ events[e].event_type = "failure"})
    /\ \A b \in DOMAIN committed.backups :
          /\ committed.backups[b].total_success_count =
                Cardinality({e \in DOMAIN committed.events :
                                /\ committed.events[e].backup_id = b
                                /\ committed.events[e].event_type = "success"})
          /\ committed.backups[b].total_failure_count =
                Cardinality({e \in DOMAIN committed.events :
                                /\ committed.events[e].backup_id = b
                                /\ committed.events[e].event_type = "failure"})

\* a second run recording anew, with its count, the success that the first
\* run lost when a later email of the batch could not be stored and the
\* session was rolled back
C26_Witness ==
    /\ last.op = "process"
    /\ last.stage = "recorded"
    /\ last.event_new
    /\ run.no = 2
    /\ \E m \in DOMAIN mailbox : ~mailbox[m].storable
    /\ committed.backups = <<>>
    /\ backups[last.backup].total_success_count = 1

\* the Email rows of the session that differ from the committed rows: each
\* is the effect of one processed email
UncommittedEmails ==
    {e \in DOMAIN emails :
        e \notin DOMAIN committed.emails \/ committed.emails[e] # emails[e]}

\* C24: at no point of a run are the effects of more than 10 processed
\* emails uncommitted, also when emails of a group, the 10th included, raise
\* an exception; and when the run reports success = true everything is
\* committed.
C24_BoundedUncommitted ==
    /\ Cardinality(UncommittedEmails) <= 10
    /\ (last.op = "report" /\ last.success)
          => committed = Image(clients, backups, events, emails)

\* C28: every call of fetch_and_analyze_emails that returns leaves the
\* progress status at complete or error, the early returns included.
C28_ProgressEndsTerminal ==
    last.op = "report" => last.progress \in {"complete", "error"}

\* the sum of the values of a breakdown of the report
RECURSIVE SumValues(_, _)
SumValues(f, keys) ==
    IF keys = {} THEN 0
    ELSE f[CHOOSE k \in keys : TRUE]
         + SumValues(f, keys \ {CHOOSE k \in keys : TRUE})

\* C29: in every report returned after the processing loop, total_analyzed
\* plus the number of errors is total_fetched, the values of by_status and
\* those of by_type each sum to backup_notifications_found, which is at most
\* total_analyzed, and events_created is at most backup_notifications_found.
C29_ReportConsistent ==
    (last.op = "report" /\ last.success /\ last.batch # <<>>)
       => /\ last.total_analyzed + last.errors = last.total_fetched
          /\ SumValues(last.by_status, DOMAIN last.by_status)
                = last.backup_notifications_found
          /\ SumValues(last.by_type, DOMAIN last.by_type)
                = last.backup_notifications_found
          /\ last.backup_notifications_found <= last.total_analyzed
          /\ last.events_created <= last.backup_notifications_found

\* C30: after any sequence of generate_alerts_from_backups calls, alert
\* resolutions and recorded failure events, each Backup has at most one
\* unresolved Alert of type backup_failed; and a call of
\* generate_alerts_from_backups that directly follows another creates no
\* Alert.
C30_OneOpenFailedAlert ==
    /\ [](\A b \in DOMAIN backups :
             Cardinality({a \in DOMAIN alerts :
                             /\ alerts[a].backup_id = b
                             /\ alerts[a].alert_type = "backup_failed"
                             /\ ~alerts[a].is_resolved}) <= 1)
    /\ [][(last.op = "generate" /\ last'.op = "generate")
             => (alerts' = alerts /\ last'.created = 0)]_vars

\* a second call in succession that created nothing, for a backup still
\* failed whose first alert was resolved and whose second is open
C30_Witness ==
    /\ last.op = "generate"
    /\ last.created = 0
    /\ \E b \in DOMAIN backups :
          /\ backups[b].current_status = "failed"
          /\ \E a1, a2 \in DOMAIN alerts :
                /\ alerts[a1].backup_id = b
                /\ alerts[a2].backup_id = b
                /\ alerts[a1].alert_type = "backup_failed"
                /\ alerts[a2].alert_type = "backup_failed"
                /\ alerts[a1].is_resolved
                /\ ~alerts[a2].is_resolved

====
